---- MODULE Spec2Model ----
(***************************************************************************)
(* Model of video_processor.ai.content_analyzer.VideoContentAnalyzer:      *)
(* the analysis pipeline analyze_content (probe, scene segmentation,       *)
(* quality assessment, motion estimation, spherical detection, thumbnail   *)
(* recommendation) run as asyncio tasks on one event loop.                 *)
(*                                                                         *)
(* Numbers.  Python floats are modelled as exact fixed-point integers:     *)
(*   - timestamps and durations in units of 1/Scale second;                *)
(*   - quality scores in units of 1/QOne (QOne is the score 1.0);          *)
(*   - motion intensity and confidence scores in hundredths.               *)
(* Scale and QOne are chosen so that every division the code performs on   *)
(* the modelled inputs is exact.                                           *)
(***************************************************************************)
EXTENDS Integers, Sequences, FiniteSets, TLC

VARIABLES
    tasks,          \* the analyze_content tasks created on the event loop
    enable_opencv,  \* self.enable_opencv, set by __init__
    running,        \* the task the event-loop thread is executing, or NoTask
    pc,             \* pc[t]: position of task t in analyze_content
    waiting,        \* waiting[t]: "none" | "sync" (blocked inside the loop thread)
                    \*           | "thread" (suspended on a to_thread future)
    proc,           \* proc[t]: the subprocesses task t started that still run
    cap,            \* cap[t]: the cv2.VideoCapture of _assess_quality
    local,          \* local[t]: the local variables of the pipeline
    result          \* result[t]: what analyze_content returned or raised

vars == <<tasks, enable_opencv, running, pc, waiting, proc, cap, local, result>>

(***************************************************************************)
(* Units and bounds                                                        *)
(***************************************************************************)
Scale == 2520 * 10          \* lcm(1..10) * 10 ticks per second
QOne == 60 * 10             \* the quality score 1.0
Sec(n) == n * Scale

MaxDuration == 330          \* longest duration (s) given to the pure functions
NumMarks == 8               \* change points the detector may report: duration*k/NumMarks
MaxKeyMoments == 4          \* longest key_moments list given to _recommend_thumbnails

NoTask == 0
AllTasks == {1, 2}           \* task identifiers
Missing == -1               \* a key that is absent from a probe dictionary
None == <<>>                \* a local that is not assigned yet

Min(a, b) == IF a <= b THEN a ELSE b
Abs(a) == IF a < 0 THEN -a ELSE a

RECURSIVE SumSeq(_)
SumSeq(s) == IF s = <<>> THEN 0 ELSE Head(s) + SumSeq(Tail(s))

\* np.mean of a non-empty list
Mean(s) == SumSeq(s) \div Len(s)

\* s[:n]
Take(s, n) == SubSeq(s, 1, Min(n, Len(s)))

Range(s) == {s[i] : i \in DOMAIN s}

\* sorted(s)
sorted(s) == SortSeq(s, <)

RECURSIVE SetToSeq(_)
SetToSeq(S) ==
    IF S = {} THEN <<>>
    ELSE LET x == CHOOSE y \in S : \A z \in S : y <= z
         IN  <<x>> \o SetToSeq(S \ {x})

\* sorted(list(set(s)))
SortedSet(s) == SetToSeq(Range(s))

(***************************************************************************)
(* Scene segmenter: pure parts                                             *)
(***************************************************************************)

\* One line of ffmpeg's stderr: token says whether the line holds 'pts_time:'
\* followed by a float ("ok"), by something float() rejects ("bad"), or
\* does not hold it at all ("none").
Line(token, ts) == [token |-> token, pts_time |-> ts]

IsPts(l) == l.token = "ok"

\* _parse_scene_boundaries: every line holding 'pts_time:' whose value parses
\* contributes its timestamp; the list is returned sorted
_parse_scene_boundaries(ffmpeg_output) ==
    LET hits == SelectSeq(ffmpeg_output, IsPts)
    IN  sorted([i \in 1..Len(hits) |-> hits[i].pts_time])

\* _generate_fallback_scenes with range(0, num_scenes) for range(1, num_scenes)
generate_fallback_scenes_from_zero(duration) ==
    IF duration <= Sec(30) THEN <<>>
    ELSE IF duration <= Sec(120) THEN <<duration \div 2>>
    ELSE LET num_scenes == Min(duration \div Sec(30), 10)
         IN  [i \in 1..num_scenes |-> (duration * (i - 1)) \div num_scenes]

\* _generate_fallback_scenes
_generate_fallback_scenes(duration) ==
    IF duration <= Sec(30) THEN <<>>
    ELSE IF duration <= Sec(120) THEN <<duration \div 2>>
    ELSE LET num_scenes == Min(duration \div Sec(30), 10)
         IN  [i \in 1..(num_scenes - 1) |-> (duration * i) \div num_scenes]

SceneAnalysis(boundaries, count, avg, moments, confidence) ==
    [scene_boundaries |-> boundaries, scene_count |-> count,
     average_scene_length |-> avg, key_moments |-> moments,
     confidence_scores |-> confidence]

\* _fallback_scene_analysis
_fallback_scene_analysis(duration) ==
    LET boundaries == _generate_fallback_scenes(duration)
    IN  SceneAnalysis(boundaries,
                      Len(boundaries) + 1,
                      duration \div (Len(boundaries) + 1),
                      <<Min(Sec(10), (duration * 2) \div 10)>>,
                      [i \in 1..Len(boundaries) |-> 50])

\* _analyze_scenes, lines 141-169: from the parsed boundaries to the result
SceneResult(parsed, duration) ==
    LET scene_boundaries ==
            IF parsed = <<>> THEN _generate_fallback_scenes(duration) ELSE parsed
        scene_count == Len(scene_boundaries) + 1
        avg_length == IF scene_count > 0 THEN duration \div scene_count ELSE duration
        first5 == Take(scene_boundaries, 5)
        moments == [i \in 1..Len(first5) |-> first5[i] + (avg_length * 3) \div 10]
        key_moments == IF moments = <<>>
                       THEN <<Min(Sec(10), (duration * 2) \div 10)>>
                       ELSE moments
    IN  SceneAnalysis(scene_boundaries, scene_count, avg_length, key_moments,
                      [i \in 1..Len(scene_boundaries) |-> 80])

(***************************************************************************)
(* Quality assessor: pure parts                                            *)
(***************************************************************************)
QualityMetrics(sharpness, brightness, contrast, noise, overall) ==
    [sharpness_score |-> sharpness, brightness_score |-> brightness,
     contrast_score |-> contrast, noise_level |-> noise,
     overall_quality |-> overall]

\* _fallback_quality_assessment: 0.7, 0.5, 0.6, 0.3, 0.6
_fallback_quality_assessment ==
    QualityMetrics((QOne * 7) \div 10, (QOne * 5) \div 10, (QOne * 6) \div 10,
                   (QOne * 3) \div 10, (QOne * 6) \div 10)

\* lines 243-266: the scores of one decoded frame; raw is what cv2/numpy
\* measured (Laplacian variance / 10000, mean / 255, std / 128, residual / 255)
FrameScores(raw) ==
    [sharpness |-> Min(raw.sharpness, QOne),
     brightness |-> raw.brightness,
     contrast |-> Min(raw.contrast, QOne),
     noise |-> Min(raw.noise, QOne)]

\* the weighted combination with the abs() around (avg_brightness - 0.5) lost
OverallOf_without_abs(s, b, c, n) ==
    (s * 3 + (QOne - (b - QOne \div 2) * 2) * 2 + c * 3 + (QOne - n) * 2) \div 10

\* lines 280-285: the weighted combination
OverallOf(s, b, c, n) ==
    (s * 3 + (QOne - Abs(b - QOne \div 2) * 2) * 2 + c * 3 + (QOne - n) * 2) \div 10

\* lines 273-293: average the frames' scores and combine them
AverageQuality(quality_scores) ==
    LET col(f) == [i \in 1..Len(quality_scores) |-> quality_scores[i][f]]
        avg_sharpness == Mean(col("sharpness"))
        avg_brightness == Mean(col("brightness"))
        avg_contrast == Mean(col("contrast"))
        avg_noise == Mean(col("noise"))
    IN  QualityMetrics(avg_sharpness, avg_brightness, avg_contrast, avg_noise,
                       OverallOf(avg_sharpness, avg_brightness, avg_contrast, avg_noise))

(***************************************************************************)
(* Motion estimator: pure part                                             *)
(***************************************************************************)
HasPtsToken(l) == l.token # "none"

\* _parse_motion_data: count the lines holding 'pts_time:'; intensity in 1/100
_parse_motion_data(ffmpeg_output) ==
    LET processed_frames == Len(SelectSeq(ffmpeg_output, HasPtsToken))
    IN  [intensity |-> Min(processed_frames, 100)]

(***************************************************************************)
(* Spherical-projection detector                                           *)
(***************************************************************************)
\* Tag names are sequences of characters.
Lower(c) ==
    CASE c = "S" -> "s" [] c = "P" -> "p" [] c = "V" -> "v" [] c = "T" -> "t"
      [] c = "E" -> "e" [] c = "H" -> "h" [] c = "R" -> "r" [] c = "I" -> "i"
      [] c = "C" -> "c" [] c = "A" -> "a" [] c = "L" -> "l"
      [] OTHER -> c

\* str.lower
lower(s) == [i \in 1..Len(s) |-> Lower(s[i])]

\* a in b, for strings
Contains(b, a) ==
    \E i \in 0..(Len(b) - Len(a)) : SubSeq(b, i + 1, i + Len(a)) = a

spherical_indicators ==
    { <<"S","p","h","e","r","i","c","a","l">>,
      <<"s","p","h","e","r","i","c","a","l","-","v","i","d","e","o">>,
      <<"S","p","h","e","r","i","c","a","l","V","i","d","e","o">>,
      <<"P","r","o","j","e","c","t","i","o","n","T","y","p","e">>,
      <<"p","r","o","j","e","c","t","i","o","n","_","t","y","p","e">> }

\* the first stream whose codec_type is "video", or None (StopIteration)
FirstVideo(streams) ==
    LET idx == {i \in DOMAIN streams : streams[i].codec_type = "video"}
    IN  IF idx = {} THEN None
        ELSE streams[CHOOSE i \in idx : \A j \in idx : i <= j]

\* _detect_360_video: raised is TRUE when an exception leaves the function
\* (the handler catches KeyError, ValueError and StopIteration only)
_detect_360_video(probe_info) ==
    LET format_tags == probe_info.format.tags     \* {} when there are none
        video_stream == FirstVideo(probe_info.streams)
    IN  IF \E tag_name \in format_tags : \E indicator \in spherical_indicators :
               Contains(lower(tag_name), lower(indicator))
        THEN [raised |-> FALSE, value |-> TRUE]
        ELSE IF video_stream = None                   \* StopIteration
        THEN [raised |-> FALSE, value |-> FALSE]
        ELSE IF video_stream.width = Missing \/ video_stream.height = Missing
        THEN [raised |-> FALSE, value |-> FALSE]      \* KeyError
        ELSE IF video_stream.height = 0               \* ZeroDivisionError
        THEN [raised |-> TRUE, value |-> FALSE]
        ELSE [raised |-> FALSE,
              value |-> /\ 19 * video_stream.height <= 10 * video_stream.width
                        /\ 10 * video_stream.width <= 21 * video_stream.height]

(***************************************************************************)
(* Thumbnail recommender                                                   *)
(***************************************************************************)
\* _recommend_thumbnails with sorted(recommendations) for sorted(list(set(...)))
recommend_thumbnails_without_set(scenes, quality, duration) ==
    LET r1 == Take(scenes.key_moments, 3)
        r2 == IF duration > Sec(30) /\ quality.overall_quality > QOne \div 2
              THEN Append(r1, Min(Sec(5), duration \div 10))
              ELSE r1
        r3 == IF duration > Sec(60) THEN Append(r2, duration \div 2) ELSE r2
    IN  Take(sorted(r3), 5)

\* _recommend_thumbnails
_recommend_thumbnails(scenes, quality, duration) ==
    LET r1 == Take(scenes.key_moments, 3)
        r2 == IF duration > Sec(30) /\ quality.overall_quality > QOne \div 2
              THEN Append(r1, Min(Sec(5), duration \div 10))
              ELSE r1
        r3 == IF duration > Sec(60) THEN Append(r2, duration \div 2) ELSE r2
    IN  Take(SortedSet(r3), 5)


(***************************************************************************)
(* The collaborators' possible answers                                     *)
(***************************************************************************)
Stream(codec_type, width, height, duration) ==
    [codec_type |-> codec_type, width |-> width, height |-> height,
     duration |-> duration]

ProbeInfo(format_duration, tags, streams) ==
    [format |-> [duration |-> format_duration, tags |-> tags], streams |-> streams]

AudioStream == Stream("audio", Missing, Missing, Missing)

TagProjection == <<"P","R","O","J","E","C","T","I","O","N","T","Y","P","E">>
TagTitle == <<"t","i","t","l","e">>

\* Well-formed files: a video stream that carries its duration; the container
\* reports one second more than the stream.
GoodProbes(durations, heights, tagsets) ==
    { ProbeInfo(d + Sec(1), tags, <<AudioStream, Stream("video", 1920, h, d)>>) :
        d \in durations, h \in heights, tags \in tagsets }

\* Files whose metadata lacks something
DefectProbes(d) ==
    { ProbeInfo(d, {}, <<AudioStream>>),                                  \* no video stream
      ProbeInfo(d, {}, <<Stream("video", Missing, 1080, d)>>),            \* no width
      ProbeInfo(d, {}, <<Stream("video", 1920, Missing, d)>>),            \* no height
      ProbeInfo(d, {}, <<Stream("video", 1920, 1080, Missing)>>),         \* duration in format only
      ProbeInfo(Missing, {}, <<Stream("video", 1920, 1080, d)>>),         \* duration in stream only
      ProbeInfo(Missing, {}, <<Stream("video", 1920, 1080, Missing)>>) }  \* no duration

\* The change points the content-change filter reports for a file of the given
\* duration: mark k is the timestamp duration*k/NumMarks, in [0, duration).
Mark(duration, k) == (duration * k) \div NumMarks

MarkSets ==
    { a..(b - 1) : a \in 0..(NumMarks - 1), b \in 0..NumMarks }

\* ffmpeg's stderr for the detected marks: a banner line, one showinfo line
\* per mark (in the order given), and a line whose pts_time does not parse
DetectorOutput(duration, marks, descending) ==
    LET asc == SetToSeq(marks)
        n == Len(asc)
        shown == [i \in 1..n |->
                    Line("ok", Mark(duration, IF descending THEN asc[n + 1 - i] ELSE asc[i]))]
    IN  <<Line("none", 0)>> \o shown \o <<Line("bad", 0)>>

\* stderr of the motion filter: one showinfo line per processed frame
MotionOutput(frames) ==
    <<Line("none", 0)>> \o [i \in 1..frames |-> Line("ok", i)]

RawFrame(sharpness, brightness, contrast, noise) ==
    [sharpness |-> sharpness, brightness |-> brightness, contrast |-> contrast,
     noise |-> noise]

\* a crisp, well exposed frame (Laplacian variance above 10000) and a dark, noisy one
CrispFrame == RawFrame(QOne * 2, QOne \div 2, (QOne * 7) \div 10, QOne \div 10)
DarkFrame == RawFrame(QOne \div 5, QOne \div 10, QOne \div 5, (QOne * 6) \div 10)

\* What the collaborators may answer in the single-analysis specification.
\* faults: "spawn" (run_async raises), "decode" (stderr is not UTF-8),
\* "capture" (cv2.VideoCapture raises), "closed" (isOpened() is false),
\* "noframe" (cap.read() returns ret = False), "frame" (a cv2/numpy call on
\* the frame raises)
FullEnv ==
    [ probes    |-> GoodProbes({Sec(10), Sec(45), Sec(200), Sec(300)},
                               {0, 960, 1080}, {{}, {TagTitle, TagProjection}})
                    \cup DefectProbes(Sec(45)),
      marksets  |-> MarkSets,
      frames    |-> {CrispFrame, DarkFrame},
      motion    |-> {0, 10, 11, 120},
      faults    |-> {"spawn", "decode", "capture", "closed", "noframe", "frame"} ]

\* ... and when two analyses share the event loop
LoopEnv ==
    [ probes    |-> GoodProbes({Sec(45)}, {0, 1080}, {{}})
                    \cup {ProbeInfo(Sec(45), {}, <<AudioStream>>)},
      marksets  |-> {{}, {NumMarks - 1}},
      frames    |-> {CrispFrame},
      motion    |-> {11},
      faults    |-> {"spawn", "noframe"} ]


(***************************************************************************)
(* State                                                                   *)
(***************************************************************************)
NoLocals ==
    [probe_info |-> None, duration |-> 0, width |-> 0, height |-> 0,
     stderr |-> None, scenes |-> None,
     quality_scores |-> None, sample |-> 0, quality |-> None,
     motion_data |-> None, is_360 |-> FALSE]

Pending == [status |-> "pending"]
Raised(step) == [status |-> "raised", step |-> step]
Returned(value) == [status |-> "returned", value |-> value]

ContentAnalysis(l, recommended_thumbnails) ==
    [scenes |-> l.scenes, quality_metrics |-> l.quality, duration |-> l.duration,
     resolution |-> <<l.width, l.height>>,
     has_motion |-> l.motion_data.has_motion,
     motion_intensity |-> l.motion_data.intensity,
     is_360_video |-> l.is_360,
     recommended_thumbnails |-> recommended_thumbnails]

InitTasks(T) ==
    /\ tasks = T
    /\ enable_opencv \in BOOLEAN
    /\ running = NoTask
    /\ pc = [t \in T |-> "probe"]
    /\ waiting = [t \in T |-> "none"]
    /\ proc = [t \in T |-> {}]
    /\ cap = [t \in T |-> "none"]
    /\ local = [t \in T |-> NoLocals]
    /\ result = [t \in T |-> Pending]

Init == InitTasks({1})

Finished(t) == pc[t] \in {"done", "failed"}

(***************************************************************************)
(* The event loop                                                          *)
(***************************************************************************)
\* The loop thread is free and picks a task that is ready to run.
Schedule(t) ==
    /\ t \in tasks
    /\ running = NoTask
    /\ ~Finished(t)
    /\ waiting[t] = "none"
    /\ running' = t
    /\ UNCHANGED <<tasks, enable_opencv, pc, waiting, proc, cap, local, result>>

\* An exception leaves analyze_content: the task ends with it.
Fail(t, step) ==
    /\ pc' = [pc EXCEPT ![t] = "failed"]
    /\ result' = [result EXCEPT ![t] = Raised(step)]
    /\ running' = NoTask

(***************************************************************************)
(* analyze_content, lines 74-84: the probe and the basic video information *)
(***************************************************************************)
\* _get_video_metadata calls ffmpeg.probe in the coroutine itself: ffprobe is
\* started and the loop thread waits for it in Popen.communicate.
ProbeCall(t) ==
    /\ running = t
    /\ pc[t] = "probe"
    /\ proc' = [proc EXCEPT ![t] = @ \cup {"ffprobe"}]
    /\ waiting' = [waiting EXCEPT ![t] = "sync"]
    /\ pc' = [pc EXCEPT ![t] = "probe_wait"]
    /\ UNCHANGED <<tasks, enable_opencv, running, cap, local, result>>

\* ffprobe exits: ffmpeg.probe raises ffmpeg.Error or returns the dictionary.
ProbeReturn(t, E) ==
    /\ running = t
    /\ pc[t] = "probe_wait"
    /\ proc' = [proc EXCEPT ![t] = @ \ {"ffprobe"}]
    /\ waiting' = [waiting EXCEPT ![t] = "none"]
    /\ \/ /\ Fail(t, "probe")
          /\ UNCHANGED local
       \/ /\ \E info \in E.probes : local' = [local EXCEPT ![t].probe_info = info]
          /\ pc' = [pc EXCEPT ![t] = "video_stream"]
          /\ UNCHANGED <<running, result>>
    /\ UNCHANGED <<tasks, enable_opencv, cap>>

\* lines 77-84: next(...) raises StopIteration without a video stream; the
\* default of .get() is evaluated first, so a format without duration is a
\* KeyError; width and height are KeyErrors when absent.
MetadataUsable(probe_info) ==
    LET video_stream == FirstVideo(probe_info.streams)
    IN  /\ video_stream # None
        /\ probe_info.format.duration # Missing
        /\ video_stream.width # Missing
        /\ video_stream.height # Missing

ExtractVideoStream(t) ==
    /\ running = t
    /\ pc[t] = "video_stream"
    /\ LET probe_info == local[t].probe_info
           video_stream == FirstVideo(probe_info.streams)
       IN  IF FirstVideo(probe_info.streams) = None
           THEN Fail(t, "video_stream") /\ UNCHANGED local
           ELSE IF ~MetadataUsable(probe_info)
           THEN Fail(t, "metadata") /\ UNCHANGED local
           ELSE /\ local' = [local EXCEPT
                      ![t].duration = IF video_stream.duration # Missing
                                      THEN video_stream.duration
                                      ELSE probe_info.format.duration,
                      ![t].width = video_stream.width,
                      ![t].height = video_stream.height]
                /\ pc' = [pc EXCEPT ![t] = "scene_spawn"]
                /\ UNCHANGED <<running, result>>
    /\ UNCHANGED <<tasks, enable_opencv, waiting, proc, cap>>


(***************************************************************************)
(* _analyze_scenes                                                         *)
(***************************************************************************)
Text(lines) == [decodable |-> TRUE, lines |-> lines]
Undecodable == [decodable |-> FALSE, lines |-> <<>>]

\* lines 127-134: run_async starts ffmpeg (Popen) and returns at once; when
\* it raises, the handler of line 171 returns the fallback analysis.
SceneSpawn(t, E) ==
    /\ running = t
    /\ pc[t] = "scene_spawn"
    /\ \/ /\ proc' = [proc EXCEPT ![t] = @ \cup {"scene"}]
          /\ pc' = [pc EXCEPT ![t] = "scene_await"]
          /\ UNCHANGED local
       \/ /\ "spawn" \in E.faults
          /\ local' = [local EXCEPT
                ![t].scenes = _fallback_scene_analysis(local[t].duration)]
          /\ pc' = [pc EXCEPT ![t] = "quality"]
          /\ UNCHANGED proc
    /\ UNCHANGED <<tasks, enable_opencv, running, waiting, cap, result>>

\* lines 136-138: process.communicate is handed to a worker thread and the
\* task is suspended on its future; the loop thread is free again.
SceneAwait(t) ==
    /\ running = t
    /\ pc[t] = "scene_await"
    /\ waiting' = [waiting EXCEPT ![t] = "thread"]
    /\ running' = NoTask
    /\ pc' = [pc EXCEPT ![t] = "scene_resume"]
    /\ UNCHANGED <<tasks, enable_opencv, proc, cap, local, result>>

\* The worker thread reading stderr without waiting for ffmpeg to exit: the
\* future completes while the scene subprocess still runs.
SceneCommunicate_without_wait(t, E) ==
    /\ t \in tasks
    /\ waiting[t] = "thread"
    /\ pc[t] = "scene_resume"
    /\ "scene" \in proc[t]
    /\ \E out \in { Text(DetectorOutput(local[t].duration, m, desc)) :
                        m \in E.marksets, desc \in BOOLEAN }
                  \cup (IF "decode" \in E.faults THEN {Undecodable} ELSE {}) :
          local' = [local EXCEPT ![t].stderr = out]
    /\ waiting' = [waiting EXCEPT ![t] = "none"]
    /\ UNCHANGED <<tasks, enable_opencv, running, pc, proc, cap, result>>

\* The worker thread: communicate() reads stderr to the end and waits for
\* the process to exit, then the future completes.
SceneCommunicate(t, E) ==
    /\ t \in tasks
    /\ waiting[t] = "thread"
    /\ "scene" \in proc[t]
    /\ \E out \in { Text(DetectorOutput(local[t].duration, m, desc)) :
                        m \in E.marksets, desc \in BOOLEAN }
                  \cup (IF "decode" \in E.faults THEN {Undecodable} ELSE {}) :
          local' = [local EXCEPT ![t].stderr = out]
    /\ proc' = [proc EXCEPT ![t] = @ \ {"scene"}]
    /\ waiting' = [waiting EXCEPT ![t] = "none"]
    /\ UNCHANGED <<tasks, enable_opencv, running, pc, cap, result>>

\* lines 141-173: decode, parse and build the analysis
ScenesFrom(stderr, duration) ==
    IF stderr.decodable
    THEN SceneResult(_parse_scene_boundaries(stderr.lines), duration)
    ELSE _fallback_scene_analysis(duration)

SceneParse(t) ==
    /\ running = t
    /\ pc[t] = "scene_resume"
    /\ local' = [local EXCEPT
          ![t].scenes = ScenesFrom(local[t].stderr, local[t].duration),
          ![t].stderr = None]
    /\ pc' = [pc EXCEPT ![t] = "quality"]
    /\ UNCHANGED <<tasks, enable_opencv, running, waiting, proc, cap, result>>

(***************************************************************************)
(* _assess_quality                                                         *)
(***************************************************************************)
\* quality is returned to analyze_content; the function's locals are gone
QualityReturn(t, quality) ==
    /\ local' = [local EXCEPT ![t].quality = quality,
                              ![t].quality_scores = None, ![t].sample = 0]
    /\ pc' = [pc EXCEPT ![t] = "motion_spawn"]

\* lines 222-232
QualityOpen(t, E) ==
    /\ running = t
    /\ pc[t] = "quality"
    /\ IF ~enable_opencv
       THEN QualityReturn(t, _fallback_quality_assessment) /\ UNCHANGED cap
       ELSE \/ /\ "capture" \in E.faults              \* VideoCapture raises
               /\ QualityReturn(t, _fallback_quality_assessment)
               /\ UNCHANGED cap
            \/ /\ "closed" \in E.faults               \* not cap.isOpened()
               /\ cap' = [cap EXCEPT ![t] = "closed"]
               /\ QualityReturn(t, _fallback_quality_assessment)
            \/ /\ cap' = [cap EXCEPT ![t] = "open"]
               /\ local' = [local EXCEPT ![t].quality_scores = <<>>, ![t].sample = 1]
               /\ pc' = [pc EXCEPT ![t] = "sample"]
    /\ UNCHANGED <<tasks, enable_opencv, running, waiting, proc, result>>

\* sample_timestamps[:3], the argument being scenes.key_moments[:3]
SampleTimestamps(l) == Take(Take(l.scenes.key_moments, 3), 3)

\* lines 234-266: one iteration of the loop over the timestamps
QualitySample(t, E) ==
    /\ running = t
    /\ pc[t] = "sample"
    /\ local[t].sample <= Len(SampleTimestamps(local[t]))
    /\ \/ /\ "noframe" \in E.faults                   \* not ret: continue
          /\ local' = [local EXCEPT ![t].sample = @ + 1]
          /\ UNCHANGED pc
       \/ /\ "frame" \in E.faults                     \* handler of line 295
          /\ QualityReturn(t, _fallback_quality_assessment)
       \/ /\ \E raw \in E.frames :
                local' = [local EXCEPT
                    ![t].quality_scores = Append(@, FrameScores(raw)),
                    ![t].sample = @ + 1]
          /\ UNCHANGED pc
    /\ UNCHANGED <<tasks, enable_opencv, running, waiting, proc, cap, result>>

\* lines 268-293: after the loop
QualityResult(quality_scores) ==
    IF quality_scores = <<>> THEN _fallback_quality_assessment
    ELSE AverageQuality(quality_scores)

QualityFinish(t) ==
    /\ running = t
    /\ pc[t] = "sample"
    /\ local[t].sample > Len(SampleTimestamps(local[t]))
    /\ cap' = [cap EXCEPT ![t] = "released"]
    /\ QualityReturn(t, QualityResult(local[t].quality_scores))
    /\ UNCHANGED <<tasks, enable_opencv, running, waiting, proc, result>>

(***************************************************************************)
(* _detect_motion                                                          *)
(***************************************************************************)
MotionFallback == [has_motion |-> TRUE, intensity |-> 50]

\* lines 318-328: ffmpeg is started on the first min(10, duration) seconds
MotionSpawn(t, E) ==
    /\ running = t
    /\ pc[t] = "motion_spawn"
    /\ \/ /\ proc' = [proc EXCEPT ![t] = @ \cup {"motion"}]
          /\ pc' = [pc EXCEPT ![t] = "motion_await"]
          /\ UNCHANGED local
       \/ /\ "spawn" \in E.faults
          /\ local' = [local EXCEPT ![t].motion_data = MotionFallback]
          /\ pc' = [pc EXCEPT ![t] = "detect_360"]
          /\ UNCHANGED proc
    /\ UNCHANGED <<tasks, enable_opencv, running, waiting, cap, result>>

\* lines 330-332
MotionAwait(t) ==
    /\ running = t
    /\ pc[t] = "motion_await"
    /\ waiting' = [waiting EXCEPT ![t] = "thread"]
    /\ running' = NoTask
    /\ pc' = [pc EXCEPT ![t] = "motion_resume"]
    /\ UNCHANGED <<tasks, enable_opencv, proc, cap, local, result>>

MotionCommunicate(t, E) ==
    /\ t \in tasks
    /\ waiting[t] = "thread"
    /\ "motion" \in proc[t]
    /\ \E out \in { Text(MotionOutput(n)) : n \in E.motion }
                  \cup (IF "decode" \in E.faults THEN {Undecodable} ELSE {}) :
          local' = [local EXCEPT ![t].stderr = out]
    /\ proc' = [proc EXCEPT ![t] = @ \ {"motion"}]
    /\ waiting' = [waiting EXCEPT ![t] = "none"]
    /\ UNCHANGED <<tasks, enable_opencv, running, pc, cap, result>>

\* lines 335-345
MotionFrom(stderr) ==
    IF stderr.decodable
    THEN LET motion_data == _parse_motion_data(stderr.lines)
         IN  [has_motion |-> motion_data.intensity > 10,
              intensity |-> motion_data.intensity]
    ELSE MotionFallback

MotionParse(t) ==
    /\ running = t
    /\ pc[t] = "motion_resume"
    /\ local' = [local EXCEPT ![t].motion_data = MotionFrom(local[t].stderr),
                              ![t].stderr = None]
    /\ pc' = [pc EXCEPT ![t] = "detect_360"]
    /\ UNCHANGED <<tasks, enable_opencv, running, waiting, proc, cap, result>>

(***************************************************************************)
(* analyze_content, lines 96-110                                           *)
(***************************************************************************)
Detect360(t) ==
    /\ running = t
    /\ pc[t] = "detect_360"
    /\ LET r == _detect_360_video(local[t].probe_info)
       IN  IF r.raised
           THEN Fail(t, "detect_360") /\ UNCHANGED local
           ELSE /\ local' = [local EXCEPT ![t].is_360 = r.value]
                /\ pc' = [pc EXCEPT ![t] = "recommend"]
                /\ UNCHANGED <<running, result>>
    /\ UNCHANGED <<tasks, enable_opencv, waiting, proc, cap>>

RecommendAndReturn(t) ==
    /\ running = t
    /\ pc[t] = "recommend"
    /\ result' = [result EXCEPT ![t] = Returned(ContentAnalysis(local[t],
          _recommend_thumbnails(local[t].scenes, local[t].quality, local[t].duration)))]
    /\ pc' = [pc EXCEPT ![t] = "done"]
    /\ running' = NoTask
    /\ UNCHANGED <<tasks, enable_opencv, waiting, proc, cap, local>>

(***************************************************************************)
(* Specifications                                                          *)
(***************************************************************************)
Next ==
    \E t \in AllTasks :
        \/ Schedule(t)
        \/ ProbeCall(t)
        \/ ProbeReturn(t, FullEnv)
        \/ ExtractVideoStream(t)
        \/ SceneSpawn(t, FullEnv)
        \/ SceneAwait(t)
        \/ SceneCommunicate(t, FullEnv)
        \/ SceneParse(t)
        \/ QualityOpen(t, FullEnv)
        \/ QualitySample(t, FullEnv)
        \/ QualityFinish(t)
        \/ MotionSpawn(t, FullEnv)
        \/ MotionAwait(t)
        \/ MotionCommunicate(t, FullEnv)
        \/ MotionParse(t)
        \/ Detect360(t)
        \/ RecommendAndReturn(t)

\* one analysis of one file
Spec == Init /\ [][Next]_vars

\* two analyses (two files) on the same event loop
InitLoop == InitTasks({1, 2})
NextLoop ==
    \E t \in AllTasks :
        \/ Schedule(t)
        \/ ProbeCall(t)
        \/ ProbeReturn(t, LoopEnv)
        \/ ExtractVideoStream(t)
        \/ SceneSpawn(t, LoopEnv)
        \/ SceneAwait(t)
        \/ SceneCommunicate(t, LoopEnv)
        \/ SceneParse(t)
        \/ QualityOpen(t, LoopEnv)
        \/ QualitySample(t, LoopEnv)
        \/ QualityFinish(t)
        \/ MotionSpawn(t, LoopEnv)
        \/ MotionAwait(t)
        \/ MotionCommunicate(t, LoopEnv)
        \/ MotionParse(t)
        \/ Detect360(t)
        \/ RecommendAndReturn(t)
SpecLoop == InitLoop /\ [][NextLoop]_vars


(***************************************************************************)
(* The pure functions on inputs of their own: _generate_fallback_scenes on *)
(* every duration from 0 to MaxDuration seconds in half-second steps, and  *)
(* _recommend_thumbnails on arbitrary key moments (unsorted, repeated,     *)
(* equal to the timestamps the function adds) and qualities.               *)
(***************************************************************************)
FallbackDurations == { k * (Scale \div 2) : k \in 0..(2 * MaxDuration) }

ThumbDurations == { Sec(20), Sec(30), Sec(31), Sec(50), Sec(60), Sec(61), Sec(100) }

KeyMomentValues(duration) ==
    { Sec(5), Sec(7), Sec(40), duration \div 10, duration \div 2 }

SeqsUpTo(S, n) == UNION { [1..k -> S] : k \in 0..n }

InitPure ==
    /\ tasks = {1}
    /\ enable_opencv = TRUE
    /\ running = 1
    /\ waiting = [t \in {1} |-> "none"]
    /\ proc = [t \in {1} |-> {}]
    /\ cap = [t \in {1} |-> "none"]
    /\ result = [t \in {1} |-> Pending]
    /\ \/ /\ pc = [t \in {1} |-> "call_generate_fallback_scenes"]
          /\ \E d \in FallbackDurations :
                local = [t \in {1} |-> [NoLocals EXCEPT !.duration = d]]
       \/ /\ pc = [t \in {1} |-> "call_recommend_thumbnails"]
          /\ \E d \in ThumbDurations :
             \E moments \in SeqsUpTo(KeyMomentValues(d), MaxKeyMoments) :
             \E overall \in {QOne \div 2, (QOne * 6) \div 10} :
                local = [t \in {1} |-> [NoLocals EXCEPT
                    !.duration = d,
                    !.scenes = SceneAnalysis(<<>>, 1, d, moments, <<>>),
                    !.quality = QualityMetrics(QOne, QOne \div 2, QOne, 0, overall)]]

CallGenerateFallbackScenes(t) ==
    /\ running = t
    /\ pc[t] = "call_generate_fallback_scenes"
    /\ result' = [result EXCEPT ![t] =
                    Returned(_generate_fallback_scenes(local[t].duration))]
    /\ pc' = [pc EXCEPT ![t] = "ret_generate_fallback_scenes"]
    /\ UNCHANGED <<tasks, enable_opencv, running, waiting, proc, cap, local>>

CallRecommendThumbnails(t) ==
    /\ running = t
    /\ pc[t] = "call_recommend_thumbnails"
    /\ result' = [result EXCEPT ![t] = Returned(
          _recommend_thumbnails(local[t].scenes, local[t].quality, local[t].duration))]
    /\ pc' = [pc EXCEPT ![t] = "ret_recommend_thumbnails"]
    /\ UNCHANGED <<tasks, enable_opencv, running, waiting, proc, cap, local>>

NextPure ==
    \E t \in AllTasks :
        \/ CallGenerateFallbackScenes(t)
        \/ CallRecommendThumbnails(t)

SpecPure == InitPure /\ [][NextPure]_vars


(***************************************************************************)
(* Properties                                                              *)
(***************************************************************************)
StrictlyIncreasing(s) == \A i \in 1..(Len(s) - 1) : s[i] < s[i + 1]

ScenesKnown(t) ==
    pc[t] \in {"quality", "sample", "motion_spawn", "motion_await", "motion_resume",
               "detect_360", "recommend", "done"}
        \/ (pc[t] = "failed" /\ result[t].step = "detect_360")

QualityKnown(t) == ScenesKnown(t) /\ pc[t] \notin {"quality", "sample"}

\* C1: analyze_content raises only when the basic stream metadata cannot be
\* obtained: the probe fails, there is no video stream, or (read generously)
\* the stream lacks duration, width or height.  No other step's failure leaves
\* analyze_content.
C1_FailsOnlyWithoutMetadata ==
    \A t \in tasks :
        result[t].status = "raised" =>
            result[t].step \in {"probe", "video_stream", "metadata"}

\* C2: the list _recommend_thumbnails returns is strictly ascending (so it
\* has no duplicate), has at most 5 entries, and each entry is one of the
\* first 3 key moments, min(5, duration*0.1) when duration > 30 and overall
\* quality > 0.5, or duration/2 when duration > 60.
C2_ThumbnailsSortedUniqueBounded ==
    \A t \in tasks :
        pc[t] = "ret_recommend_thumbnails" =>
            LET l == local[t]
                r == result[t].value
                allowed ==
                    Range(Take(l.scenes.key_moments, 3))
                    \cup (IF l.duration > Sec(30) /\ 2 * l.quality.overall_quality > QOne
                          THEN {Min(Sec(5), l.duration \div 10)} ELSE {})
                    \cup (IF l.duration > Sec(60) THEN {l.duration \div 2} ELSE {})
            IN  /\ StrictlyIncreasing(r)
                /\ Cardinality(Range(r)) = Len(r)
                /\ Len(r) <= 5
                /\ Range(r) \subseteq allowed

\* five distinct recommendations came out of key moments given unsorted
C2_Witness ==
    \E t \in tasks :
        /\ pc[t] = "ret_recommend_thumbnails"
        /\ Len(result[t].value) = 5
        /\ ~StrictlyIncreasing(local[t].scenes.key_moments)

\* C3: the duration-based fallback gives no boundary up to 30 s, exactly
\* duration/2 up to 120 s, and above that the boundaries duration*i/numScenes
\* for i in 1..numScenes-1 with numScenes = min(floor(duration/30), 10); the
\* result is strictly increasing, has at most 9 boundaries, each strictly
\* between 0 and duration.
C3_FallbackRule ==
    \A t \in tasks :
        pc[t] = "ret_generate_fallback_scenes" =>
            LET d == local[t].duration
                b == result[t].value
                numScenes == Min(d \div Sec(30), 10)
            IN  /\ d <= Sec(30) => b = <<>>
                /\ (Sec(30) < d /\ d <= Sec(120)) => (Len(b) = 1 /\ 2 * b[1] = d)
                /\ d > Sec(120) =>
                      /\ Len(b) = numScenes - 1
                      /\ \A i \in 1..Len(b) : numScenes * b[i] = d * i
                /\ StrictlyIncreasing(b)
                /\ Len(b) <= 9
                /\ \A i \in 1..Len(b) : 0 < b[i] /\ b[i] < d

\* the cap of 10 scenes is reached: 9 boundaries
C3_Witness ==
    \E t \in tasks :
        /\ pc[t] = "ret_generate_fallback_scenes"
        /\ local[t].duration > Sec(300)
        /\ Len(result[t].value) = 9

\* overall = 0.3*sharpness + 0.2*(1 - 2*|brightness - 0.5|) + 0.3*contrast
\*           + 0.2*(1 - noise), times 10 to stay in integers
OverallIsWeightedSum(q) ==
    10 * q.overall_quality =
          3 * q.sharpness_score
        + 2 * (QOne - 2 * Abs(q.brightness_score - QOne \div 2))
        + 3 * q.contrast_score
        + 2 * (QOne - q.noise_level)

\* the documented fallback value: 0.7, 0.5, 0.6, 0.3, 0.6
DocumentedFallback(overall) ==
    QualityMetrics((7 * QOne) \div 10, (5 * QOne) \div 10, (6 * QOne) \div 10,
                   (3 * QOne) \div 10, overall)

\* C4 as stated: every QualityMetrics the assessor returns, the fixed
\* fallback included, has overall equal to the weighted sum of its components.
C4_OverallAlwaysWeightedSum ==
    \A t \in tasks : QualityKnown(t) => OverallIsWeightedSum(local[t].quality)

\* C4 as amended: every QualityMetrics the assessor returns is the fixed
\* fallback value (0.7, 0.5, 0.6, 0.3, 0.6) or has overall equal to the
\* weighted sum of its components; the fallback's overall, 0.6, is not the
\* weighted sum of its components, 0.73.
C4_OverallWeightedSumUnlessFallback ==
    /\ \A t \in tasks :
          QualityKnown(t) =>
              \/ local[t].quality = DocumentedFallback((60 * QOne) \div 100)
              \/ OverallIsWeightedSum(local[t].quality)
    /\ ~OverallIsWeightedSum(DocumentedFallback((60 * QOne) \div 100))
    /\ OverallIsWeightedSum(DocumentedFallback((73 * QOne) \div 100))

\* a dark frame and a crisp frame were averaged
C4_Witness ==
    \E t \in tasks :
        /\ QualityKnown(t)
        /\ cap[t] = "released"
        /\ local[t].quality.brightness_score = (QOne \div 2 + QOne \div 10) \div 2
        /\ local[t].quality.overall_quality < QOne

\* C5: spherical detection never aborts analyze_content: no exception leaves
\* _detect_360_video, whatever the probed metadata.
C5_DetectionNeverFatal ==
    \A t \in tasks :
        result[t].status = "raised" => result[t].step # "detect_360"

\* C6: in every SceneAnalysis the segmenter returns there are as many
\* confidence scores as boundaries, each 0.8 when the boundaries are the
\* detector's, and 0.5 when the duration-based fallback produced them
\* (the detector raised, or ran and reported no change point).
DetectorReported(stderr) ==
    stderr.decodable /\ \E i \in DOMAIN stderr.lines : stderr.lines[i].token = "ok"

C6_ConfidenceTellsOrigin ==
    [][\A t \in tasks :
          (pc[t] \in {"scene_spawn", "scene_resume"} /\ pc'[t] = "quality") =>
              LET s == local'[t].scenes
                  detected == pc[t] = "scene_resume" /\ DetectorReported(local[t].stderr)
              IN  /\ Len(s.confidence_scores) = Len(s.scene_boundaries)
                  /\ \A i \in DOMAIN s.confidence_scores :
                        s.confidence_scores[i] = IF detected THEN 80 ELSE 50]_vars

\* C7: in every SceneAnalysis the segmenter returns, keyMoments is
\* boundary + averageSceneLength*0.3 for each of the first 5 boundaries of
\* that result, and the single value min(10, duration*0.2) only when the
\* result has no boundary.
C7_KeyMomentsFollowBoundaries ==
    \A t \in tasks :
        ScenesKnown(t) =>
            LET s == local[t].scenes
                d == local[t].duration
                n == Min(5, Len(s.scene_boundaries))
            IN  IF s.scene_boundaries = <<>>
                THEN s.key_moments = << Min(Sec(10), d \div 5) >>
                ELSE /\ Len(s.key_moments) = n
                     /\ \A i \in 1..n :
                           10 * s.key_moments[i] =
                               10 * s.scene_boundaries[i] + 3 * s.average_scene_length

\* C8: in every ContentAnalysis returned, every scene boundary, key moment
\* and recommended thumbnail lies in [0, duration].  (Every change point the
\* modelled detector reports is duration*k/NumMarks with k < NumMarks, hence
\* in [0, duration).)
InDuration(s, d) == \A i \in DOMAIN s : 0 <= s[i] /\ s[i] <= d

C8_TimestampsWithinDuration ==
    \A t \in tasks :
        result[t].status = "returned" =>
            LET a == result[t].value
            IN  /\ InDuration(a.scenes.scene_boundaries, a.duration)
                /\ InDuration(a.scenes.key_moments, a.duration)
                /\ InDuration(a.recommended_thumbnails, a.duration)

\* C9: once _assess_quality has ended, on whatever path, the capture it
\* opened is not held any more.
C9_CaptureReleasedOnReturn ==
    \A t \in tasks : pc[t] \notin {"quality", "sample"} => cap[t] # "open"

\* C10: a task that waits for one of its subprocesses (ffprobe, the scene
\* filter, the motion filter) has handed the wait to a worker thread: it does
\* not occupy the event-loop thread, which stays free for the other tasks.
C10_SubprocessWaitsOffloaded ==
    \A t \in tasks :
        (proc[t] # {} /\ waiting[t] # "none") =>
            (waiting[t] = "thread" /\ running # t)


\* The step of analyze_content a position belongs to: 1 probe, 2 scene
\* segmentation, 3 quality assessment, 4 motion estimation, 5 spherical
\* detection, 6 thumbnail recommendation, 7 finished.
StepOf(position) ==
    CASE position \in {"probe", "probe_wait", "video_stream"} -> 1
      [] position \in {"scene_spawn", "scene_await", "scene_resume"} -> 2
      [] position \in {"quality", "sample"} -> 3
      [] position \in {"motion_spawn", "motion_await", "motion_resume"} -> 4
      [] position = "detect_360" -> 5
      [] position = "recommend" -> 6
      [] OTHER -> 7

\* the subprocess a step may have running
SubprocessOf(step) ==
    CASE step = 1 -> {"ffprobe"} [] step = 2 -> {"scene"} [] step = 4 -> {"motion"}
      [] OTHER -> {}

====
